---- MODULE Spec2Model ----
(***************************************************************************)
(* A model of the ParticleSimulator kernels of mcp-local/examples/cpp:     *)
(* the position update (scalar and 8-lane AVX), the population count, the  *)
(* matrix transpose (direct and 16x16 tiled) and the byte copy, together   *)
(* with the preprocessor branches that select their bodies.                *)
(*                                                                         *)
(* Every "#pragma omp parallel for" is a fork of a team of threads, each   *)
(* thread running its chunk of the (collapsed) iteration space in order,   *)
(* one memory statement per step, and a join when all chunks are finished. *)
(***************************************************************************)
EXTENDS Integers, Sequences, FiniteSets, TLC

VARIABLES
    phase,      \* position of the driver: which call is running
    thr,        \* the team of the running parallel region: thread -> loop position
    cfg,        \* the build configuration the translation unit was compiled for
    tn,         \* transpose: the matrix edge n
    src,        \* transpose: the source matrix, row-major
    dstB,       \* transpose: destination of matrix_transpose_baseline
    dstO,       \* transpose: destination of matrix_transpose_cache_optimized
    out,        \* transpose: destination of the second baseline call (from dstB)
    wcount,     \* transpose: stores of the tiled kernel per destination index
    stray,      \* transpose: indices outside the buffers that a kernel touched
    pref,       \* transpose: offsets handed to _mm_prefetch
    skind,      \* transpose: how the caller filled src
    un,         \* update: the particle count n
    ukind,      \* update: how the caller filled the buffers
    x, y,       \* update: positions given to update_positions_baseline
    vx, vy,     \* update: velocities given to update_positions_baseline
    sx, sy,     \* update: positions given to update_positions_simd
    svx, svy,   \* update: velocities given to update_positions_simd
    ustray,     \* update: <<buffer, index>> accessed with index >= n
    bcalls,     \* update: finished calls of update_positions_baseline
    scalls,     \* update: finished calls of update_positions_simd
    cmem,       \* copy: the bytes of memory, by address
    ckind,      \* copy: how memory was filled before the call
    cdst, csrc, \* copy: the arguments dst and src (addresses)
    cn,         \* copy: the argument n
    rdi, rsi,   \* copy: the registers of rep movsb: destination, source
    rcx,        \* copy: the register of rep movsb: bytes left
    built,      \* build: whether simulator.cpp compiled and assembled
    bv,         \* build: the argument of count_set_bits, as 16-bit limbs
    result      \* build: the value count_set_bits returned

tvars == <<tn, src, dstB, dstO, out, wcount, stray, pref, skind>>
uvars == <<un, ukind, x, y, vx, vy, sx, sy, svx, svy, ustray, bcalls, scalls>>
cvars == <<cmem, ckind, cdst, csrc, cn, rdi, rsi, rcx>>
bvars == <<built, bv, result>>
vars == <<phase, thr, cfg, tvars, uvars, cvars, bvars>>

\* what the actions of one kernel leave alone
notT == <<cfg, uvars, cvars, bvars>>
notU == <<cfg, tvars, cvars, bvars>>
notC == <<cfg, tvars, uvars, bvars>>
notB == <<cfg, tvars, uvars, cvars>>

(***************************************************************************)
(* Bounds of the model.                                                    *)
(***************************************************************************)
MaxN == 4           \* matrix edges 0..MaxN are explored ...
MaxOver == 1        \* ... and block..block+MaxOver (more than one tile)
NumThreads == 2     \* largest team of a parallel region
MaxParticles == 16  \* particle counts 0..MaxParticles are explored
MaxCalls == 2       \* consecutive calls of one update kernel
MemSize == 6        \* bytes of memory the copy is explored in

(***************************************************************************)
(* Program constants.                                                      *)
(***************************************************************************)
block == 16         \* 64 / sizeof(float)

Min(a, b) == IF a < b THEN a ELSE b

(***************************************************************************)
(* Memory: a buffer is a function from its valid indices.  An access       *)
(* outside the buffer is recorded; the load yields an unknown value.       *)
(***************************************************************************)
Unknown == 0 - 1

Load(buf, idx) == IF idx \in DOMAIN buf THEN buf[idx] ELSE Unknown

Store(buf, idx, val) == IF idx \in DOMAIN buf THEN [buf EXCEPT ![idx] = val] ELSE buf

Outside(buf, idx) == IF idx \in DOMAIN buf THEN {} ELSE {idx}

Filled(n, val) == [k \in 0..(n - 1) |-> val]

(***************************************************************************)
(* #pragma omp parallel for: the team and the static schedule.  Thread t   *)
(* (1..nt) runs the iterations ChunkLo..ChunkHi-1 of the collapsed loop.   *)
(***************************************************************************)
Teams == 1..NumThreads

ChunkLo(t, nt, tot) ==
    LET q == tot \div nt
        r == tot % nt
    IN  IF t - 1 < r THEN (q + 1) * (t - 1) ELSE q * (t - 1) + r

ChunkHi(t, nt, tot) ==
    ChunkLo(t, nt, tot) + (tot \div nt) + (IF t - 1 < tot % nt THEN 1 ELSE 0)

Fork(nt, tot, first) ==
    [t \in 1..nt |->
        [c  |-> ChunkLo(t, nt, tot),
         hi |-> ChunkHi(t, nt, tot),
         pc |-> IF ChunkLo(t, nt, tot) < ChunkHi(t, nt, tot) THEN first ELSE "done",
         ii |-> 0,
         jj |-> 0]]

NoTeam == << >>

AllDone == \A t \in DOMAIN thr : thr[t].pc = "done"

(***************************************************************************)
(* The build configuration.                                                *)
(***************************************************************************)
DefaultCfg == [arch |-> "x86_64", avx |-> TRUE, useAsm |-> FALSE]

(***************************************************************************)
(* Matrix transpose.                                                       *)
(***************************************************************************)
SrcKinds == {"index", "residue"}

\* main.cpp fills src with arbitrary values; "index" makes every element
\* distinct, "residue" repeats values without being symmetric.
SrcMatrix(kind, n) ==
    [k \in 0..(n * n - 1) |-> IF kind = "index" THEN k ELSE (k * k + k \div 3) % 5]

TSizes == (0..MaxN) \cup (block..(block + MaxOver))

\* a baseline that stores to dst[i * n + j]: a copy, not a transpose
BaselineDstIndexCopy(i, j, n) == i * n + j

\* dst[j * n + i] = src[i * n + j]
BaselineDstIndex(i, j, n) == j * n + i

BaselineSrcIndex(i, j, n) == i * n + j

\* a baseline whose outer loop stops at i < n - 1
BaselineIterationsShort(n) == n * (n - 1)

\* for (i = 0; i < n; ++i) for (j = 0; j < n; ++j), collapse(2)
BaselineIterations(n) == n * n

\* for (i = 0; i < n; i += block): the number of iterations
TilesPerEdge(n) == (n + block - 1) \div block

TileIterations(n) == TilesPerEdge(n) * TilesPerEdge(n)

TileI(c, n) == (c \div TilesPerEdge(n)) * block

TileJ(c, n) == (c % TilesPerEdge(n)) * block

\* a row loop without the clamp to n
TileRowCondUnclamped(ii, i, n) == ii < i + block

\* ii < i + block && ii < n
TileRowCond(ii, i, n) == ii < i + block /\ ii < n

\* a column loop without the clamp to n
TileColCondUnclamped(jj, j, n) == jj < j + block

\* jj < j + block && jj < n
TileColCond(jj, j, n) == jj < j + block /\ jj < n

\* &src[i * n + j + block]
PrefetchOffset(i, j, n) == i * n + j + block

\* the state of the transpose buffers while another kernel is exercised
TIdle ==
    /\ tn = 0
    /\ skind = "index"
    /\ src = << >>
    /\ dstB = << >>
    /\ dstO = << >>
    /\ out = << >>
    /\ wcount = << >>
    /\ stray = {}
    /\ pref = {}

\* the state of the update buffers while another kernel is exercised
UIdle ==
    /\ un = 0
    /\ ukind = "ramp"
    /\ x = << >> /\ y = << >> /\ vx = << >> /\ vy = << >>
    /\ sx = << >> /\ sy = << >> /\ svx = << >> /\ svy = << >>
    /\ ustray = {}
    /\ bcalls = 0
    /\ scalls = 0

\* the state of the copy while another kernel is exercised
CIdle ==
    /\ cmem = << >>
    /\ ckind = "index"
    /\ cdst = 0 /\ csrc = 0 /\ cn = 0
    /\ rdi = 0 /\ rsi = 0 /\ rcx = 0

\* the build has succeeded and count_set_bits is not exercised
BIdle ==
    /\ built = TRUE
    /\ bv = <<0, 0, 0, 0>>
    /\ result = 0

TInit ==
    /\ phase = "t_call_base"
    /\ thr = NoTeam
    /\ cfg = DefaultCfg
    /\ UIdle /\ CIdle /\ BIdle
    /\ tn \in TSizes
    /\ skind \in SrcKinds
    /\ src = SrcMatrix(skind, tn)
    /\ dstB = Filled(tn * tn, 0 - 1)
    /\ dstO = Filled(tn * tn, 0 - 2)
    /\ out = Filled(tn * tn, 0 - 3)
    /\ wcount = Filled(tn * tn, 0)
    /\ stray = {}
    /\ pref = {}

\* The team of the baseline's region.  Its n * n single-store iterations make
\* the interleavings of three threads at n >= block too many to enumerate:
\* there the team has one or two threads.
BaselineTeams(n) == IF n <= MaxN THEN Teams ELSE {1, 2}

\* sim.matrix_transpose_baseline(src, dst, n): the parallel region starts
CallBaseline ==
    /\ phase = "t_call_base"
    /\ \E nt \in BaselineTeams(tn) : thr' = Fork(nt, BaselineIterations(tn), "store")
    /\ phase' = "t_base"
    /\ UNCHANGED <<tvars, notT>>

\* one iteration of the collapsed baseline loop, by thread t
BaselineStep(t) ==
    /\ phase \in {"t_base", "t_base2"}
    /\ t \in DOMAIN thr
    /\ thr[t].pc = "store"
    /\ LET i == thr[t].c \div tn
           j == thr[t].c % tn
           from == IF phase = "t_base" THEN src ELSE dstB
           to == IF phase = "t_base" THEN dstB ELSE out
           d == BaselineDstIndex(i, j, tn)
           s == BaselineSrcIndex(i, j, tn)
       IN  /\ IF phase = "t_base"
              THEN dstB' = Store(to, d, Load(from, s)) /\ out' = out
              ELSE out' = Store(to, d, Load(from, s)) /\ dstB' = dstB
           /\ stray' = stray \cup Outside(to, d) \cup Outside(from, s)
    /\ thr' = [thr EXCEPT ![t].c = @ + 1,
                          ![t].pc = IF thr[t].c + 1 < thr[t].hi THEN "store" ELSE "done"]
    /\ UNCHANGED <<phase, cfg, tn, src, dstO, wcount, pref, skind, notT>>

\* the implicit barrier at the end of the baseline's parallel region
JoinBaseline ==
    /\ phase = "t_base"
    /\ AllDone
    /\ phase' = "t_call_opt"
    /\ thr' = NoTeam
    /\ UNCHANGED <<tvars, notT>>

\* sim.matrix_transpose_cache_optimized(src, dst, n)
CallOptimized ==
    /\ phase = "t_call_opt"
    /\ \E nt \in Teams : thr' = Fork(nt, TileIterations(tn), "prefetch")
    /\ phase' = "t_opt"
    /\ UNCHANGED <<tvars, notT>>

\* _mm_prefetch(...), then the inner loops are entered: ii = i, jj = j
TilePrefetch(t) ==
    /\ phase = "t_opt"
    /\ t \in DOMAIN thr
    /\ thr[t].pc = "prefetch"
    /\ LET i == TileI(thr[t].c, tn)
           j == TileJ(thr[t].c, tn)
       IN  /\ pref' = pref \cup {PrefetchOffset(i, j, tn)}
           /\ thr' = [thr EXCEPT ![t].ii = i, ![t].jj = j,
                        ![t].pc = IF TileRowCond(i, i, tn) /\ TileColCond(j, j, tn)
                                  THEN "store"
                                  ELSE IF thr[t].c + 1 < thr[t].hi THEN "prefetch" ELSE "done",
                        ![t].c = IF TileRowCond(i, i, tn) /\ TileColCond(j, j, tn)
                                 THEN @ ELSE @ + 1]
    /\ UNCHANGED <<phase, cfg, tn, src, dstB, dstO, out, wcount, stray, skind, notT>>

\* dst[jj * n + ii] = src[ii * n + jj]; ++jj, and the loop tests that follow
TileStore(t) ==
    /\ phase = "t_opt"
    /\ t \in DOMAIN thr
    /\ thr[t].pc = "store"
    /\ LET r == thr[t]
           i == TileI(r.c, tn)
           j == TileJ(r.c, tn)
           d == r.jj * tn + r.ii
           s == r.ii * tn + r.jj
           moreCols == TileColCond(r.jj + 1, j, tn)
           moreRows == TileRowCond(r.ii + 1, i, tn) /\ TileColCond(j, j, tn)
       IN  /\ dstO' = Store(dstO, d, Load(src, s))
           /\ wcount' = IF d \in DOMAIN wcount THEN [wcount EXCEPT ![d] = @ + 1] ELSE wcount
           /\ stray' = stray \cup Outside(dstO, d) \cup Outside(src, s)
           /\ thr' = [thr EXCEPT
                        ![t].jj = IF moreCols THEN r.jj + 1 ELSE j,
                        ![t].ii = IF moreCols THEN r.ii ELSE r.ii + 1,
                        ![t].pc = IF moreCols \/ moreRows THEN "store"
                                  ELSE IF r.c + 1 < r.hi THEN "prefetch" ELSE "done",
                        ![t].c = IF moreCols \/ moreRows THEN r.c ELSE r.c + 1]
    /\ UNCHANGED <<phase, cfg, tn, src, dstB, out, pref, skind, notT>>

JoinOptimized ==
    /\ phase = "t_opt"
    /\ AllDone
    /\ phase' = "t_call_base2"
    /\ thr' = NoTeam
    /\ UNCHANGED <<tvars, notT>>

\* sim.matrix_transpose_baseline(dst, out, n): the transpose of the transpose
CallBaselineAgain ==
    /\ phase = "t_call_base2"
    /\ \E nt \in BaselineTeams(tn) : thr' = Fork(nt, BaselineIterations(tn), "store")
    /\ phase' = "t_base2"
    /\ UNCHANGED <<tvars, notT>>

JoinBaselineAgain ==
    /\ phase = "t_base2"
    /\ AllDone
    /\ phase' = "t_done"
    /\ thr' = NoTeam
    /\ UNCHANGED <<tvars, notT>>

TNext ==
    \/ CallBaseline
    \/ \E t \in Teams : BaselineStep(t)
    \/ JoinBaseline
    \/ CallOptimized
    \/ \E t \in Teams : TilePrefetch(t)
    \/ \E t \in Teams : TileStore(t)
    \/ JoinOptimized
    \/ CallBaselineAgain
    \/ JoinBaselineAgain

SpecTranspose == TInit /\ [][TNext]_vars

(***************************************************************************)
(* Single-precision arithmetic.  The buffers hold integer-valued floats of *)
(* magnitude below 2^30, so a sum is an integer, rounded once to the       *)
(* 24-bit significand: to nearest, ties to the even significand.           *)
(***************************************************************************)
Abs(a) == IF a < 0 THEN 0 - a ELSE a

RECURSIVE Ulp(_)
\* the spacing of floats at magnitude a
Ulp(a) == IF a < 2^24 THEN 1 ELSE 2 * Ulp(a \div 2)

RoundF32(z) ==
    LET a == Abs(z)
        u == Ulp(a)
        q == a \div u
        r == a % u
        up == u > 1 /\ (2 * r > u \/ (2 * r = u /\ q % 2 = 1))
        m == (IF up THEN q + 1 ELSE q) * u
    IN  IF z < 0 THEN 0 - m ELSE m

\* a + b in float
FAdd(a, b) == RoundF32(a + b)

\* _mm256_add_ps: eight float additions, lane by lane
VAdd(a, b) == [l \in 0..7 |-> FAdd(a[l], b[l])]

(***************************************************************************)
(* Position update.  A buffer of n floats is followed by the rest of its   *)
(* last 32-byte block (aligned_alloc(32, ...)): the cells n..RoundUp8(n)-1 *)
(* are not the caller's, they hold whatever lies behind the buffer.        *)
(***************************************************************************)
RoundUp8(n) == ((n + 7) \div 8) * 8

UKinds == {"ramp", "large"}

\* what lies behind a buffer
Foreign == 5

\* the caller's fill: "ramp" is x = [0, 1, ...], vx all 1 (sums are exact);
\* "large" has positions from 2^24 up, where floats are 2 apart
UFill(kind, buf, n) ==
    [k \in 0..(RoundUp8(n) - 1) |->
        IF k >= n THEN Foreign
        ELSE IF kind = "ramp"
             THEN CASE buf = "x" -> k
                    [] buf = "y" -> 100 - 3 * k
                    [] buf = "vx" -> 1
                    [] OTHER -> 0 - 2
             ELSE CASE buf = "x" -> 2^24 + 2 * k
                    [] buf = "y" -> 0 - (2^24 + 4 * k)
                    [] buf = "vx" -> 1
                    [] OTHER -> (k % 3) - 3]

USizes == 0..MaxParticles

\* a scalar loop that stops one element early
UpdateIterationsShort(n) == IF n > 0 THEN n - 1 ELSE 0

\* for (int i = 0; i < n; ++i)
UpdateIterations(n) == n

\* a vector loop that drops the remainder: for (i = 0; i + 8 <= n; i += 8)
SimdIterationsWhole(n) == n \div 8

\* for (int i = 0; i < n; i += 8): the number of iterations
SimdIterations(n) == (n + 7) \div 8

\* the elements a 256-bit load or store at &buf[i] touches
Lanes(i) == i..(i + 7)

\* the touched elements that are not elements of the n-element buffer
StrayLanes(name, i, n) == {<<name, k>> : k \in {l \in Lanes(i) : l >= n}}

\* _mm256_load_ps(&buf[i])
VLoad(buf, i) == [l \in 0..7 |-> Load(buf, i + l)]

\* _mm256_store_ps(&buf[i], reg)
VStore(buf, i, reg) ==
    [k \in DOMAIN buf |-> IF k \in Lanes(i) THEN reg[k - i] ELSE buf[k]]

ZeroReg == [l \in 0..7 |-> 0]

ForkSimd(nt, tot) ==
    [t \in 1..nt |->
        [c  |-> ChunkLo(t, nt, tot),
         hi |-> ChunkHi(t, nt, tot),
         pc |-> IF ChunkLo(t, nt, tot) < ChunkHi(t, nt, tot) THEN "ldx" ELSE "done",
         px |-> ZeroReg, py |-> ZeroReg, pvx |-> ZeroReg, pvy |-> ZeroReg]]

UInit ==
    /\ phase = "u_idle"
    /\ thr = NoTeam
    /\ cfg = DefaultCfg
    /\ un \in USizes
    /\ ukind \in UKinds
    /\ x = UFill(ukind, "x", un) /\ sx = x
    /\ y = UFill(ukind, "y", un) /\ sy = y
    /\ vx = UFill(ukind, "vx", un) /\ svx = vx
    /\ vy = UFill(ukind, "vy", un) /\ svy = vy
    /\ ustray = {}
    /\ bcalls = 0
    /\ scalls = 0
    /\ TIdle /\ CIdle /\ BIdle

\* sim.update_positions_baseline(x, y, vx, vy, n)
CallUpdateBaseline ==
    /\ phase = "u_idle"
    /\ bcalls < MaxCalls
    /\ \E nt \in Teams : thr' = Fork(nt, UpdateIterations(un), "x")
    /\ phase' = "u_base"
    /\ UNCHANGED <<uvars, notU>>

\* x[i] += vx[i];
BaselineAddX(t) ==
    /\ phase = "u_base"
    /\ t \in DOMAIN thr
    /\ thr[t].pc = "x"
    /\ LET i == thr[t].c
       IN  /\ x' = Store(x, i, FAdd(Load(x, i), Load(vx, i)))
           /\ ustray' = ustray \cup {<<"x", k>> : k \in {i} \ (0..(un - 1))}
    /\ thr' = [thr EXCEPT ![t].pc = "y"]
    /\ UNCHANGED <<phase, un, ukind, y, vx, vy, sx, sy, svx, svy, bcalls, scalls, notU>>

\* y[i] += vy[i]; ++i
BaselineAddY(t) ==
    /\ phase = "u_base"
    /\ t \in DOMAIN thr
    /\ thr[t].pc = "y"
    /\ LET i == thr[t].c
       IN  /\ y' = Store(y, i, FAdd(Load(y, i), Load(vy, i)))
           /\ ustray' = ustray \cup {<<"y", k>> : k \in {i} \ (0..(un - 1))}
    /\ thr' = [thr EXCEPT ![t].c = @ + 1,
                          ![t].pc = IF thr[t].c + 1 < thr[t].hi THEN "x" ELSE "done"]
    /\ UNCHANGED <<phase, un, ukind, x, vx, vy, sx, sy, svx, svy, bcalls, scalls, notU>>

JoinUpdateBaseline ==
    /\ phase = "u_base"
    /\ AllDone
    /\ phase' = "u_idle"
    /\ thr' = NoTeam
    /\ bcalls' = bcalls + 1
    /\ UNCHANGED <<un, ukind, x, y, vx, vy, sx, sy, svx, svy, ustray, scalls, notU>>

\* sim.update_positions_simd(x, y, vx, vy, n), compiled in on x86-64 only
CallUpdateSimd ==
    /\ phase = "u_idle"
    /\ cfg.arch = "x86_64"
    /\ scalls < MaxCalls
    /\ \E nt \in Teams : thr' = ForkSimd(nt, SimdIterations(un))
    /\ phase' = "u_simd"
    /\ UNCHANGED <<uvars, notU>>

\* one of the four _mm256_load_ps of the group at i = 8 * c
SimdLoad(t) ==
    /\ phase = "u_simd"
    /\ t \in DOMAIN thr
    /\ thr[t].pc \in {"ldx", "ldy", "ldvx", "ldvy"}
    /\ LET i == 8 * thr[t].c
           pc == thr[t].pc
       IN  /\ thr' = CASE pc = "ldx" -> [thr EXCEPT ![t].px = VLoad(sx, i), ![t].pc = "ldy"]
                       [] pc = "ldy" -> [thr EXCEPT ![t].py = VLoad(sy, i), ![t].pc = "ldvx"]
                       [] pc = "ldvx" -> [thr EXCEPT ![t].pvx = VLoad(svx, i), ![t].pc = "ldvy"]
                       [] OTHER -> [thr EXCEPT ![t].pvy = VLoad(svy, i), ![t].pc = "stx"]
           /\ ustray' = ustray \cup
                  StrayLanes(CASE pc = "ldx" -> "x" [] pc = "ldy" -> "y"
                               [] pc = "ldvx" -> "vx" [] OTHER -> "vy", i, un)
    /\ UNCHANGED <<phase, un, ukind, x, y, vx, vy, sx, sy, svx, svy, bcalls, scalls, notU>>

\* px = _mm256_add_ps(px, pvx); ... _mm256_store_ps(&x[i], px);
SimdStoreX(t) ==
    /\ phase = "u_simd"
    /\ t \in DOMAIN thr
    /\ thr[t].pc = "stx"
    /\ LET i == 8 * thr[t].c
       IN  /\ sx' = VStore(sx, i, VAdd(thr[t].px, thr[t].pvx))
           /\ ustray' = ustray \cup StrayLanes("x", i, un)
    /\ thr' = [thr EXCEPT ![t].px = VAdd(thr[t].px, thr[t].pvx), ![t].pc = "sty"]
    /\ UNCHANGED <<phase, un, ukind, x, y, vx, vy, sy, svx, svy, bcalls, scalls, notU>>

\* py = _mm256_add_ps(py, pvy); ... _mm256_store_ps(&y[i], py); i += 8
SimdStoreY(t) ==
    /\ phase = "u_simd"
    /\ t \in DOMAIN thr
    /\ thr[t].pc = "sty"
    /\ LET i == 8 * thr[t].c
       IN  /\ sy' = VStore(sy, i, VAdd(thr[t].py, thr[t].pvy))
           /\ ustray' = ustray \cup StrayLanes("y", i, un)
    /\ thr' = [thr EXCEPT ![t].py = VAdd(thr[t].py, thr[t].pvy),
                          ![t].c = @ + 1,
                          ![t].pc = IF thr[t].c + 1 < thr[t].hi THEN "ldx" ELSE "done"]
    /\ UNCHANGED <<phase, un, ukind, x, y, vx, vy, sx, svx, svy, bcalls, scalls, notU>>

JoinUpdateSimd ==
    /\ phase = "u_simd"
    /\ AllDone
    /\ phase' = "u_idle"
    /\ thr' = NoTeam
    /\ scalls' = scalls + 1
    /\ UNCHANGED <<un, ukind, x, y, vx, vy, sx, sy, svx, svy, ustray, bcalls, notU>>

UNext ==
    \/ CallUpdateBaseline
    \/ \E t \in Teams : BaselineAddX(t)
    \/ \E t \in Teams : BaselineAddY(t)
    \/ JoinUpdateBaseline
    \/ CallUpdateSimd
    \/ \E t \in Teams : SimdLoad(t)
    \/ \E t \in Teams : SimdStoreX(t)
    \/ \E t \in Teams : SimdStoreY(t)
    \/ JoinUpdateSimd

SpecUpdate == UInit /\ [][UNext]_vars

(***************************************************************************)
(* The build of simulator.cpp.  The target and the macros decide which     *)
(* bodies the preprocessor keeps, and whether the file compiles at all.    *)
(***************************************************************************)
Archs == {"x86_64", "i386", "aarch64", "other"}

\* the target, whether it has AVX enabled, whether USE_X86_ASM is defined
Configs == [arch : Archs, avx : BOOLEAN, useAsm : BOOLEAN]

IsX86(c) == c.arch \in {"x86_64", "i386"}

\* #include <immintrin.h>, outside any #if: the header exists for x86 only
HasImmintrin(c) == IsX86(c)

\* the register the "r" constraint gives the uint64_t n
PopcntSrcBits(c) == IF c.arch = "x86_64" THEN 64 ELSE 32

\* the register the "=r" constraint gives the int count
PopcntDstBits == 32

\* "popcnt %1, %0": the assembler takes two registers of one size
PopcntAssembles(c) == IsX86(c) /\ PopcntSrcBits(c) = PopcntDstBits

Kernels ==
    {"update_positions_simd", "count_set_bits", "matrix_transpose_cache_optimized",
     "custom_memcpy", "update_positions_baseline", "matrix_transpose_baseline"}

\* the kernels the claims call specialized
Specialized ==
    {"update_positions_simd", "count_set_bits", "matrix_transpose_cache_optimized",
     "custom_memcpy"}

\* whether the body the preprocessor keeps for kernel k compiles
FunctionCompiles(k, c) ==
    CASE k = "update_positions_simd" -> HasImmintrin(c) /\ c.avx
      [] k = "count_set_bits" -> IF c.useAsm THEN PopcntAssembles(c) ELSE TRUE
      [] k = "matrix_transpose_cache_optimized" -> HasImmintrin(c)
      [] OTHER -> TRUE

\* one translation unit holds all six kernels
TranslationUnitBuilds(c) ==
    HasImmintrin(c) /\ \A k \in Kernels : FunctionCompiles(k, c)

Buildable == {c \in Configs : TranslationUnitBuilds(c)}

(***************************************************************************)
(* count_set_bits.  A uint64_t is four 16-bit limbs, least significant     *)
(* first.                                                                  *)
(***************************************************************************)
RECURSIVE PopLimb(_)
PopLimb(w) == IF w = 0 THEN 0 ELSE (w % 2) + PopLimb(w \div 2)

\* __builtin_popcountll(n)
BuiltinPopcountll(v) == PopLimb(v[1]) + PopLimb(v[2]) + PopLimb(v[3]) + PopLimb(v[4])

\* popcnt on the 32-bit register that holds the low half of n
Popcnt32(v) == PopLimb(v[1]) + PopLimb(v[2])

\* the body kept by #ifdef USE_X86_ASM ... #else ... #endif
CountSetBits(c, v) == IF c.useAsm THEN Popcnt32(v) ELSE BuiltinPopcountll(v)

\* test_values of test_bit_counting:
\* 0x0, 0xFFFFFFFFFFFFFFFF, 0xAAAAAAAAAAAAAAAA, 0x123456789ABCDEF0, 0x0F0F0F0F0F0F0F0F
TestValues ==
    {<<0, 0, 0, 0>>, <<65535, 65535, 65535, 65535>>, <<43690, 43690, 43690, 43690>>,
     <<57072, 39612, 22136, 4660>>, <<3855, 3855, 3855, 3855>>}

LimbValues == {0, 1, 32768, 65535}

BitInputs == TestValues \cup (LimbValues \X LimbValues \X LimbValues \X LimbValues)

BInit ==
    /\ phase = "b_configure"
    /\ thr = NoTeam
    /\ cfg \in Configs
    /\ built = FALSE
    /\ bv = <<0, 0, 0, 0>>
    /\ result = 0
    /\ TIdle /\ UIdle /\ CIdle

\* g++ -c simulator.cpp for the configured target
Compile ==
    /\ phase = "b_configure"
    /\ built' = TranslationUnitBuilds(cfg)
    /\ phase' = IF TranslationUnitBuilds(cfg) THEN "b_ready" ELSE "b_failed"
    /\ UNCHANGED <<thr, bv, result, notB>>

\* int count = sim.count_set_bits(val);
CallCountSetBits ==
    /\ phase \in {"b_ready", "b_returned"}
    /\ \E v \in BitInputs :
          /\ bv' = v
          /\ result' = CountSetBits(cfg, v)
    /\ phase' = "b_returned"
    /\ UNCHANGED <<thr, built, notB>>

BNext ==
    \/ Compile
    \/ CallCountSetBits

SpecBuild == BInit /\ [][BNext]_vars

(***************************************************************************)
(* custom_memcpy.  Memory is the bytes at addresses 0..MemSize-1.          *)
(***************************************************************************)
CKinds == {"index", "pairs"}

\* memory before the call: every byte distinct, or bytes repeating
CFill(kind) ==
    [a \in 0..(MemSize - 1) |-> IF kind = "index" THEN a + 1 ELSE 200 + (a \div 2)]

\* the regions [d, d + n) and [s, s + n) lie in memory and do not overlap
ValidCopy(d, s, n) ==
    /\ d + n <= MemSize
    /\ s + n <= MemSize
    /\ (d + n <= s \/ s + n <= d)

\* a memcpy that copies one byte too many
MemcpyOneMore(mem, d, s, n) ==
    [a \in DOMAIN mem |-> IF a >= d /\ a < d + n + 1 /\ (s + (a - d)) \in DOMAIN mem
                          THEN mem[s + (a - d)] ELSE mem[a]]

\* std::memcpy(dst, src, n)
Memcpy(mem, d, s, n) ==
    [a \in DOMAIN mem |-> IF a >= d /\ a < d + n THEN mem[s + (a - d)] ELSE mem[a]]

CInit ==
    /\ phase = "c_call"
    /\ thr = NoTeam
    /\ cfg \in Buildable
    /\ ckind \in CKinds
    /\ cmem = CFill(ckind)
    /\ cdst \in 0..MemSize
    /\ csrc \in 0..MemSize
    /\ cn \in 0..MemSize
    /\ ValidCopy(cdst, csrc, cn)
    /\ rdi = 0 /\ rsi = 0 /\ rcx = 0
    /\ TIdle /\ UIdle /\ BIdle

\* #ifdef __x86_64__: "+D" (dst), "+S" (src), "+c" (n) load the registers
CallCopyAsm ==
    /\ phase = "c_call"
    /\ cfg.arch = "x86_64"
    /\ rdi' = cdst
    /\ rsi' = csrc
    /\ rcx' = cn
    /\ phase' = "c_rep"
    /\ UNCHANGED <<thr, cmem, ckind, cdst, csrc, cn, notC>>

\* --rcx
RepCountAfter(c) == c - 1

\* rep movsb, one repetition: [rdi] = [rsi]; ++rdi; ++rsi; --rcx
RepMovsb ==
    /\ phase = "c_rep"
    /\ rcx # 0
    /\ cmem' = Store(cmem, rdi, Load(cmem, rsi))
    /\ rdi' = rdi + 1
    /\ rsi' = rsi + 1
    /\ rcx' = RepCountAfter(rcx)
    /\ UNCHANGED <<phase, thr, ckind, cdst, csrc, cn, notC>>

\* rep ends when rcx is 0
RepDone ==
    /\ phase = "c_rep"
    /\ rcx = 0
    /\ phase' = "c_done"
    /\ UNCHANGED <<thr, cvars, notC>>

\* #else: std::memcpy(dst, src, n)
CallCopyFallback ==
    /\ phase = "c_call"
    /\ cfg.arch # "x86_64"
    /\ cmem' = Memcpy(cmem, cdst, csrc, cn)
    /\ phase' = "c_done"
    /\ UNCHANGED <<thr, ckind, cdst, csrc, cn, rdi, rsi, rcx, notC>>

CNext ==
    \/ CallCopyAsm
    \/ RepMovsb
    \/ RepDone
    \/ CallCopyFallback

SpecCopy == CInit /\ [][CNext]_vars

(***************************************************************************)
(* Properties of the build and of count_set_bits, under SpecBuild.         *)
(***************************************************************************)
\* the number of 1 bits of v: the set bit positions, counted
BitCount(v) ==
    Cardinality({<<l, b>> \in (1..4) \X (0..15) : (v[l] \div (2^b)) % 2 = 1})

\* C4: count_set_bits exists with USE_X86_ASM defined and without it, and
\* every call returns the number of 1 bits of its argument, a value in
\* [0, 64], the same on both branches; 0x123456789ABCDEF0 gives 32.
C4_CountSetBits ==
    /\ (phase # "b_configure" /\ cfg.arch = "x86_64" /\ cfg.avx) => built
    /\ phase = "b_returned" =>
          /\ result = BitCount(bv)
          /\ result \in 0..64
          /\ bv = <<57072, 39612, 22136, 4660>> => result = 32

\* C5: on every target, the ones without the x86 vector instructions
\* included, the build yields the kernels that have a specialized path
\* (USE_X86_ASM left undefined, as in the default build).
C5_FallbackEverywhere ==
    (phase # "b_configure" /\ ~cfg.useAsm) =>
        /\ built
        /\ \A k \in Specialized : FunctionCompiles(k, cfg)

(***************************************************************************)
(* Properties of custom_memcpy, under SpecCopy.                            *)
(***************************************************************************)
DstRegion == cdst..(cdst + cn - 1)

\* C3: after custom_memcpy(dst, src, n) on non-overlapping regions
\* dst[0..n) holds what src[0..n) held, and every byte outside dst[0..n)
\* (src, and dst from n on) is as before, so n = 0 changes nothing; on the
\* rep movsb branch and on the memcpy branch alike, and at no moment of the
\* copy is a byte outside dst[0..n) changed.
C3_CopyExact ==
    /\ \A a \in (DOMAIN cmem) \ DstRegion : cmem[a] = CFill(ckind)[a]
    /\ phase = "c_done" =>
          \A k \in 0..(cn - 1) : cmem[cdst + k] = CFill(ckind)[csrc + k]

\* C3 witness: rep movsb has copied three bytes from the top of memory down.
C3_Witness ==
    /\ phase = "c_done"
    /\ cfg.arch = "x86_64"
    /\ ckind = "index"
    /\ cn = 3
    /\ cdst = 0
    /\ csrc = 3
    /\ rcx = 0
    /\ cmem[0] = 4 /\ cmem[1] = 5 /\ cmem[2] = 6
    /\ cmem[3] = 4

(***************************************************************************)
(* Properties of the position update, under SpecUpdate.                    *)
(***************************************************************************)
RECURSIVE Repeated(_, _, _)
\* a with v added k times in float, each sum rounded
Repeated(a, v, k) == IF k = 0 THEN a ELSE FAdd(Repeated(a, v, k - 1), v)

\* none of the k sums a + v, a + 2v, ... needs rounding
ExactSums(a, v, k) == \A m \in 1..k : Abs(a + m * v) <= 2^24

Given(buf) == UFill(ukind, buf, un)

InBounds == 0..(un - 1)

\* C2: started from the same contents, after equally many calls (one each in
\* particular) update_positions_simd and update_positions_baseline have
\* produced the same x[0..n) and y[0..n); for n = 8, x = [0..7], vx all 1,
\* one call of either gives x = [1..8].
C2_SimdEqualsBaseline ==
    /\ (phase = "u_idle" /\ bcalls = scalls) =>
          \A i \in InBounds : x[i] = sx[i] /\ y[i] = sy[i]
    /\ (phase = "u_idle" /\ un = 8 /\ ukind = "ramp") =>
          /\ bcalls = 1 => \A i \in 0..7 : x[i] = i + 1
          /\ scalls = 1 => \A i \in 0..7 : sx[i] = i + 1

\* C2 witness: the scenario, after one call of each kernel.
C2_Witness ==
    /\ phase = "u_idle"
    /\ un = 8
    /\ ukind = "ramp"
    /\ bcalls = 1
    /\ scalls = 1
    /\ sx[7] = 8
    /\ x[7] = 8

\* C8 as stated: after k calls of update_positions_baseline x[i] is
\* x0[i] + k * vx[i] and y[i] is y0[i] + k * vy[i] (computed exactly, or in
\* float as x0 + k * vx), with vx and vy unchanged.
C8_Original ==
    phase = "u_idle" =>
        /\ \A i \in InBounds :
              /\ x[i] \in {Given("x")[i] + bcalls * Given("vx")[i],
                           FAdd(Given("x")[i], RoundF32(bcalls * Given("vx")[i]))}
              /\ y[i] \in {Given("y")[i] + bcalls * Given("vy")[i],
                           FAdd(Given("y")[i], RoundF32(bcalls * Given("vy")[i]))}
        /\ vx = Given("vx")
        /\ vy = Given("vy")

\* C8 (amended): under every interleaving, after k calls of
\* update_positions_baseline x[i] is x0[i] with vx[i] added k times in single
\* precision, each sum rounded, and likewise y[i]; that is x0[i] + k * vx[i]
\* whenever none of the k sums needs rounding (always so for k = 1 up to the
\* one rounding of the sum); vx and vy are unchanged.
C8_BaselineAccumulates ==
    phase = "u_idle" =>
        /\ \A i \in InBounds :
              /\ x[i] = Repeated(Given("x")[i], Given("vx")[i], bcalls)
              /\ y[i] = Repeated(Given("y")[i], Given("vy")[i], bcalls)
              /\ ExactSums(Given("x")[i], Given("vx")[i], bcalls) =>
                    x[i] = Given("x")[i] + bcalls * Given("vx")[i]
              /\ ExactSums(Given("y")[i], Given("vy")[i], bcalls) =>
                    y[i] = Given("y")[i] + bcalls * Given("vy")[i]
              /\ bcalls = 1 => x[i] = FAdd(Given("x")[i], Given("vx")[i])
              /\ bcalls = 1 => y[i] = FAdd(Given("y")[i], Given("vy")[i])
        /\ vx = Given("vx")
        /\ vy = Given("vy")

\* C8 witness: two calls on positions at 2^24: x[0] = 2^24 absorbed both
\* additions of 1, x[1] = 2^24 + 2 moved by 2 in the first call only.
C8_Witness ==
    /\ phase = "u_idle"
    /\ ukind = "large"
    /\ un = 3
    /\ bcalls = 2
    /\ x[0] = 2^24
    /\ x[1] = 2^24 + 4
    /\ x[2] = 2^24 + 4

\* C9: update_positions_simd loads and stores only elements with index in
\* [0, n) of x, y, vx and vy.
C9_SimdStaysInBounds == ustray = {}

(***************************************************************************)
(* Properties of the transpose kernels, under SpecTranspose.               *)
(***************************************************************************)
\* the transpose of the n x n matrix m
Transposed(m, n) == [k \in 0..(n * n - 1) |-> m[(k % n) * n + (k \div n)]]

BaselineReturned == phase \notin {"t_call_base", "t_base"}

OptimizedReturned == phase \in {"t_call_base2", "t_base2", "t_done"}

\* C1: once both kernels have returned, the destination of
\* matrix_transpose_cache_optimized equals the destination of
\* matrix_transpose_baseline element for element, for every explored n
\* (0, 1, below, at and above the 16-element tile edge).
C1_OptimizedEqualsBaseline ==
    OptimizedReturned => dstO = dstB

\* C1 witness: both returned for n = block + 1, where four tiles (three of
\* them partial) were transposed, and the corner element is in place.
C1_Witness ==
    /\ phase = "t_call_base2"
    /\ tn = block + 1
    /\ skind = "index"
    /\ dstO[block] = block * tn
    /\ dstB[block] = block * tn
    /\ dstO[tn * tn - 1] = tn * tn - 1

\* C6: after matrix_transpose_baseline(src, dst, n) returns,
\* dst[j * n + i] = src[i * n + j] for all i, j in [0, n) and src is as the
\* caller filled it; for src[i * 4 + j] = i * 4 + j, dst[j * 4 + i] = i * 4 + j.
C6_BaselineTransposes ==
    BaselineReturned =>
        /\ LET given == SrcMatrix(skind, tn)
           IN  /\ \A i \in 0..(tn - 1) : \A j \in 0..(tn - 1) :
                     dstB[j * tn + i] = given[i * tn + j]
               /\ src = given
        /\ (tn = 4 /\ skind = "index") =>
              \A i \in 0..3 : \A j \in 0..3 : dstB[j * 4 + i] = i * 4 + j

\* C6 witness: the 4 x 4 scenario has returned and dst[0 * 4 + 1] = src[1 * 4 + 0].
C6_Witness ==
    /\ phase = "t_call_opt"
    /\ tn = 4
    /\ skind = "index"
    /\ dstB[1] = 4
    /\ dstB[4] = 1

\* C7: the baseline applied twice (src -> dstB, then dstB -> out, distinct
\* buffers) gives out = src element for element.
C7_BaselineInvolution ==
    phase = "t_done" => out = src

\* C7 witness: both calls have returned for a 3 x 3 matrix that is not
\* symmetric, so the intermediate buffer differs from src.
C7_Witness ==
    /\ phase = "t_done"
    /\ tn = 3
    /\ dstB # src
    /\ out = src

\* C10: in matrix_transpose_cache_optimized no destination index is stored
\* twice and no index outside [0, n * n) is touched, at any moment of any
\* interleaving; when the region has joined every index was stored exactly
\* once and the destination is the transpose, whatever the interleaving.
C10_TilesPartition ==
    /\ \A k \in DOMAIN wcount : wcount[k] <= 1
    /\ stray = {}
    /\ OptimizedReturned =>
          /\ \A k \in 0..(tn * tn - 1) : wcount[k] = 1
          /\ dstO = Transposed(src, tn)

\* C10 witness: two threads have finished the four tiles of n = block + 1
\* (the edge tiles clamped to n), every index stored once.
C10_Witness ==
    /\ phase = "t_opt"
    /\ tn = block + 1
    /\ Len(thr) = 2
    /\ AllDone
    /\ \A k \in 0..(tn * tn - 1) : wcount[k] = 1

====
